---- MODULE Spec2Model ----
(***************************************************************************)
(* Model of gamest_plugins/retroachievements/module.py:                    *)
(* RetroachievementsPlugin, a session plugin that polls the                *)
(* RetroAchievements user summary, diffs it against the last stored        *)
(* summary and reports the difference; it re-arms itself with the host's   *)
(* delayed-callback scheduler (application.after / after_cancel).          *)
(*                                                                         *)
(* The host application, its configuration store and the remote API are    *)
(* the environment: their answers are inputs drawn from bounded sets.      *)
(* Time is counted in seconds; scheduler deadlines in milliseconds, as in  *)
(* the code.                                                               *)
(***************************************************************************)
EXTENDS Integers, FiniteSets, Sequences, TLC

\* ------------------------------------------------------------------ bounds
MaxTicks == 7          \* the clock runs from 0 to MaxTicks * TickSecs seconds
MaxInterval == 2       \* configured intervals are 1..MaxInterval minutes
MaxJobs == 2           \* at most MaxJobs calls of application.after per run
MaxServices == 2       \* at most MaxServices registered NotificationServices

\* ------------------------------------------------------- program constants
WarmupMs == 5 * 60 * 1000       \* onGameStart: after(5*60*1000, ...)
SecsPerMinute == 60             \* get_report: seconds=2*self.interval*60
MsPerMinute == 60 * 1000        \* report_update: after(self.interval*60*1000, ...)
WindowFactor == 2               \* get_report: 2*self.interval*60
TickSecs == SecsPerMinute       \* the modelled clock steps by one minute

\* ------------------------------------------------------------ value domains
Ids == {"42", "43"}
Presences == {"", "Playing X", "Playing X (Level 2)"}
Users == {"", "alice"}
ApiKeys == {"", "key"}
Intervals == 1..MaxInterval

\* DateAwarded of each achievement the remote API knows; an achievement is
\* fixed once awarded, so every response that carries it carries this time.
DateAwarded == [k \in Ids |-> IF k = "42" THEN 3 * TickSecs ELSE 5 * TickSecs]

NoAch == [i \in {} |-> 0]

\* None, as the value of latest_summary, of get_summary() and of the
\* configuration entry 'latest_summary'.
None == [none |-> TRUE, presence |-> "", hasAch |-> FALSE, ach |-> NoAch]

\* summary = {'presence': ..., 'achievements': ...}; hasAch = FALSE is
\* 'achievements': None (RecentAchievements has no entry for LastGameID).
\* ach maps an achievement id to the second it was awarded (DateAwarded).
MkSummary(p, h, a) == [none |-> FALSE, presence |-> p, hasAch |-> h, ach |-> a]

\* The achievement mappings a response can carry at second t: any of the
\* achievements awarded so far.
AchMapsAt(t) ==
    {[k \in S |-> DateAwarded[k]] :
        S \in SUBSET {k \in Ids : DateAwarded[k] <= t}}

SummariesAt(t) ==
    {MkSummary(p, TRUE, a) : p \in Presences, a \in AchMapsAt(t)}
    \cup {MkSummary(p, FALSE, NoAch) : p \in Presences}

\* What requests.get(...).json() does, seen from get_summary:
\*   "error"     the request or the JSON decoding raises
\*   "malformed" a JSON body without the expected keys or shapes
\*   "offline"   Status == 'Offline'
\*   "online"    a body that yields the summary `summary`
Response(kind, s) == [kind |-> kind, summary |-> s]
ResponsesAt(t) ==
    {Response(k, None) : k \in {"error", "malformed", "offline"}}
    \cup {Response("online", s) : s \in SummariesAt(t)}

\* ------------------------------------------------------ configuration entry
\* The configuration store holds text: json.dumps(summary) writes the
\* summary as its presence, whether it has an achievement mapping, and the
\* mapping's items; json.loads reads it back.  NoEntry: nothing is stored.
NoEntry == << >>
dumpsWithoutItems(s) == <<s.presence, s.hasAch, {}>>
dumps(s) == <<s.presence, s.hasAch, {<<k, s.ach[k]>> : k \in DOMAIN s.ach}>>
ItemOf(items, k) == CHOOSE p \in items : p[1] = k
loads(x) == MkSummary(x[1], x[2], [k \in {p[1] : p \in x[3]} |-> ItemOf(x[3], k)[2]])

\* --------------------------------------------------------------- get_summary
\* Returns the summary (or None), whether an exception leaves the method and
\* the new value of the configuration entry 'latest_summary'.
get_summary_uncaught(resp, persisted) ==
    IF resp.kind = "online"
    THEN [raised |-> FALSE, summary |-> resp.summary,
          persisted |-> dumps(resp.summary)]
    ELSE [raised |-> resp.kind # "offline", summary |-> None,
          persisted |-> persisted]
get_summary(resp, persisted) ==
    CASE resp.kind = "error" ->
            [raised |-> FALSE, summary |-> None, persisted |-> persisted]
      [] resp.kind = "malformed" ->
            [raised |-> TRUE, summary |-> None, persisted |-> persisted]
      [] resp.kind = "offline" ->
            [raised |-> FALSE, summary |-> None, persisted |-> persisted]
      [] OTHER ->
            [raised |-> FALSE, summary |-> resp.summary,
             persisted |-> dumps(resp.summary)]

\* ---------------------------------------------------------------- get_report
\* A report is the presence text followed by the listed achievements.
NoReport == [none |-> TRUE, presence |-> "", listed |-> {}]
MkReport(p, l) == [none |-> FALSE, presence |-> p, listed |-> l]

\* Python truthiness of get_report's return value: None and '' are falsy.
Truthy(report) ==
    /\ ~report.none
    /\ (report.presence # "" \/ report.listed # {})

HasCredentialsUserOnly(user, api_key) == user # ""
HasCredentials(user, api_key) == user # "" /\ api_key # ""

\* summary == self.latest_summary, line 142 (comparison by value)
SameSummaryNever(summary, latest) == FALSE
SameSummary(summary, latest) == summary = latest

\* ago < datetime.timedelta(seconds=2*self.interval*60)
RecentInclusive(t, awarded, interval) ==
    t - awarded <= WindowFactor * interval * SecsPerMinute
Recent(t, awarded, interval) ==
    t - awarded < WindowFactor * interval * SecsPerMinute

\* k not in self.latest_summary['achievements'] and ago < ...
IsNew(k, summary, base, t, interval) ==
    /\ k \notin DOMAIN base.ach
    /\ Recent(t, summary.ach[k], interval)

\* The loop of lines 150-155 raises when summary['achievements'] is None
\* (.items() of None) and when an item is tested against a stored
\* 'achievements' of None (k not in None).
DiffRaises(summary, base) ==
    \/ ~summary.hasAch
    \/ (DOMAIN summary.ach # {} /\ ~base.hasAch)

\* The stored summary the loop compares against: line 147 stores the new
\* summary first when none was stored.
Base(summary, latest) == IF latest.none THEN summary ELSE latest

\* Lines 148-161 against the stored summary `base`.
DiffAgainst(summary, base, t, interval) ==
    IF DiffRaises(summary, base)
    THEN [raised |-> TRUE, report |-> NoReport, latest |-> base]
    ELSE [raised |-> FALSE,
          report |-> MkReport(summary.presence,
                       {k \in DOMAIN summary.ach :
                            IsNew(k, summary, base, t, interval)}),
          latest |-> summary]

\* Lines 145-161, for a summary that differs from latest_summary.
Diff(summary, latest, t, interval) ==
    DiffAgainst(summary, Base(summary, latest), t, interval)

\* The result of get_report: the report, whether it raised, the new
\* latest_summary and configuration entry, whether a request was made and
\* what get_summary returned.
Outcome(raised, report, latest, p, requested, summary) ==
    [raised |-> raised, report |-> report, latest |-> latest,
     persisted |-> p, requested |-> requested, summary |-> summary]

\* Lines 145-161 as the end of get_report.
Reported(d, gs) ==
    Outcome(d.raised, d.report, d.latest, gs.persisted, TRUE, gs.summary)

\* Lines 140-161, given what get_summary did.
ReportOf(gs, latest, t, interval) ==
    IF gs.raised
    THEN Outcome(TRUE, NoReport, latest, gs.persisted, TRUE, None)
    ELSE IF gs.summary.none \/ SameSummary(gs.summary, latest)
    THEN Outcome(FALSE, NoReport, latest, gs.persisted, TRUE, gs.summary)
    ELSE Reported(Diff(gs.summary, latest, t, interval), gs)

get_report(user, api_key, resp, latest, persisted, t, interval) ==
    IF ~HasCredentials(user, api_key)
    THEN Outcome(FALSE, NoReport, latest, persisted, FALSE, None)
    ELSE ReportOf(get_summary(resp, persisted), latest, t, interval)

\* ------------------------------------------------------------- report_update
\* The settings are read from the configuration store each time they are
\* used, so every run of a handler sees the values of that moment.
Settings ==
    [user : Users, api_key : ApiKeys, add_status_updates : BOOLEAN,
     notify : BOOLEAN, interval : Intervals]

\* The host's side of one run: the registered NotificationService plugins,
\* whether play_session.add_status_update raises, and which notify call
\* raises (0: none).
HostCalls ==
    {h \in [services : 0..MaxServices, asuRaises : BOOLEAN,
            notifyRaisesAt : 0..MaxServices] :
        h.notifyRaisesAt <= h.services}

\* 'except Exception:' catches whatever the try block raises.
CaughtNothing(exc) == FALSE
Caught(exc) == exc

\* The framing of report_text, lines 165-170.
Framing(game_end) == IF game_end THEN "played" ELSE "is playing"

\* Line 173: a report body was produced.
Emits(gr) == ~gr.raised /\ Truthy(gr.report)
\* Lines 174-175: add_status_update is called, and raises.
AddsStatus(gr, cfg) == Emits(gr) /\ cfg.add_status_updates
StatusRaises(gr, cfg, host) == AddsStatus(gr, cfg) /\ host.asuRaises
\* Lines 177-180: the services are notified in turn, until one raises.
NotifiesDespiteStatusFailure(gr, cfg, host) == Emits(gr) /\ cfg.notify
Notifies(gr, cfg, host) ==
    Emits(gr) /\ ~StatusRaises(gr, cfg, host) /\ cfg.notify
NotifyRaises(gr, cfg, host) ==
    Notifies(gr, cfg, host) /\ host.notifyRaisesAt > 0

\* Lines 173-182, given what get_report did.
Emission(gr, cfg, host) ==
    [gr |-> gr,
     statusUpdates |-> IF AddsStatus(gr, cfg) THEN 1 ELSE 0,
     notifyCalls |-> IF ~Notifies(gr, cfg, host) THEN 0
                     ELSE IF host.notifyRaisesAt > 0 THEN host.notifyRaisesAt
                     ELSE host.services,
     exc |-> \/ gr.raised
             \/ StatusRaises(gr, cfg, host)
             \/ NotifyRaises(gr, cfg, host)]

\* The try block, lines 172-182.
TryBlock(cfg, host, resp, latest, persisted, t) ==
    Emission(get_report(cfg.user, cfg.api_key, resp, latest, persisted, t,
                        cfg.interval), cfg, host)

\* The finally block, lines 185-187: the condition under which the next
\* check is scheduled.
ReschedulesIfActive(running, act) == act
Reschedules(running, act) == running /\ act

\* Lines 183-187, given what the try block did.
Finish(b, game_end, cfg, running, act) ==
    [gr |-> b.gr,
     framing |-> Framing(game_end),
     statusUpdates |-> b.statusUpdates,
     notifyCalls |-> b.notifyCalls,
     logged |-> b.exc /\ Caught(b.exc),
     propagated |-> b.exc /\ ~Caught(b.exc),
     schedule |-> Reschedules(running, act),
     delay |-> cfg.interval * MsPerMinute]

report_update(game_end, cfg, host, resp, latest, persisted, t, running, act) ==
    Finish(TryBlock(cfg, host, resp, latest, persisted, t), game_end, cfg,
           running, act)

\* --------------------------------------------------------------------- state
VARIABLES
    now,             \* the clock, in seconds
    phase,           \* "new", "bound" (constructed), "failed" (__init__ raised)
    latest_summary,  \* self.latest_summary
    persisted,       \* the configuration entry 'latest_summary'
    job,             \* self.job: 0 is None, else the id application.after returned
    timers,          \* the host scheduler's pending callbacks of this reporter
    nextId,          \* the id the next call of application.after returns
    RUNNING,         \* application.RUNNING
    active,          \* self.play_session is self.application.play_session
    ended,           \* onGameEnd has run since the last onGameStart
    last,            \* what the most recent handler run did
    startedAt,       \* history: second of the last onGameStart, -1 if none
    endedEarly,      \* history: onGameEnd ran before the warm-up had elapsed
    everListed,      \* history: ids listed in the reports emitted so far
    listedBefore,    \* history: everListed as it was before the latest run
    inflight         \* the runs of report_update that are in progress

hist == <<startedAt, endedEarly, everListed, listedBefore>>

vars == <<now, phase, latest_summary, persisted, job, timers, nextId,
          RUNNING, active, ended, last, hist, inflight>>

Timer(id, due) == [id |-> id, due |-> due]

\* application.after(ms, self.report_update)
after(ts, id, ms, t) == ts \cup {Timer(id, t * 1000 + ms)}

\* application.after_cancel(id): cancelling an id that is no longer
\* pending does nothing.
after_cancel(ts, id) == {t \in ts : t.id # id}

\* cleanup, lines 104-106
cleanupAll(ts, j) == IF j # 0 THEN {} ELSE ts
cleanup(ts, j) == IF j # 0 THEN after_cancel(ts, j) ELSE ts

DefaultSettings ==
    [user |-> "", api_key |-> "", add_status_updates |-> TRUE,
     notify |-> TRUE, interval |-> 1]
NoHostCalls == [services |-> 0, asuRaises |-> FALSE, notifyRaisesAt |-> 0]
NoRun ==
    [gr |-> [raised |-> FALSE, report |-> NoReport, latest |-> None,
             persisted |-> NoEntry, requested |-> FALSE, summary |-> None],
     framing |-> "", statusUpdates |-> 0, notifyCalls |-> 0,
     logged |-> FALSE, propagated |-> FALSE, schedule |-> FALSE, delay |-> 0]

\* The record of a handler run: the handler, what it read and what the run
\* of report_update inside it (if any) did.
Run(op, attempts, wasEnded, cfg, host, resp, prev, prevP, pending, running, act, at, ru) ==
    [op |-> op, attempts |-> attempts, afterEnd |-> wasEnded, cfg |-> cfg,
     host |-> host, resp |-> resp, prev |-> prev,
     prevPersisted |-> prevP, pending |-> pending,
     running |-> running, active |-> act, at |-> at, ru |-> ru]

NoRunYet ==
    Run("none", 0, FALSE, DefaultSettings, NoHostCalls,
        Response("error", None), None, NoEntry, {}, FALSE, FALSE, 0, NoRun)

\* ---------------------------------------------------------------------- Init
\* Before the plugin is constructed: the configuration store may hold the
\* summary a previous run persisted.
Init ==
    /\ now = 0
    /\ phase = "new"
    /\ latest_summary = None
    /\ persisted \in {NoEntry} \cup
          {dumps(s) : s \in {x \in SummariesAt(0) : x.presence = "Playing X"}}
    /\ job = 0
    /\ timers = {}
    /\ nextId = 1
    /\ RUNNING \in BOOLEAN
    /\ active = TRUE
    /\ ended = FALSE
    /\ last = NoRunYet
    /\ startedAt = -1
    /\ endedEarly = FALSE
    /\ everListed = {}
    /\ listedBefore = {}
    /\ inflight = {}

\* ------------------------------------------------------------------ __init__
\* Lines 22-26: latest_summary is the persisted summary, or else
\* get_summary(), or None when that raises.
Restore(resp, stored) ==
    IF stored = NoEntry
    THEN get_summary(resp, stored)
    ELSE [raised |-> FALSE, summary |-> loads(stored), persisted |-> stored]

\* __init__, lines 16-29.  identified: user_app.identifier_plugin ==
\* 'RetroarchIdentifierPlugin'; when it is not, UnsupportedAppError leaves
\* the constructor before anything is read, fetched or bound.
ConstructedFetchFirst(identified, resp, stored) ==
    [failed |-> ~identified,
     latest |-> IF Restore(resp, stored).raised THEN None
                ELSE Restore(resp, stored).summary,
     persisted |-> Restore(resp, stored).persisted,
     requested |-> stored = NoEntry]
Constructed(identified, resp, stored) ==
    IF ~identified
    THEN [failed |-> TRUE, latest |-> None, persisted |-> stored,
          requested |-> FALSE]
    ELSE [failed |-> FALSE,
          latest |-> IF Restore(resp, stored).raised THEN None
                     ELSE Restore(resp, stored).summary,
          persisted |-> Restore(resp, stored).persisted,
          requested |-> stored = NoEntry]

Construct(identified, resp) ==
    /\ phase = "new"
    /\ \E c \in {Constructed(identified, resp, persisted)} :
          /\ phase' = IF c.failed THEN "failed" ELSE "bound"
          /\ latest_summary' = c.latest
          /\ persisted' = c.persisted
          /\ last' = [NoRunYet EXCEPT
                         !.op = IF c.failed THEN "init_failed" ELSE "init",
                         !.resp = resp,
                         !.prevPersisted = persisted,
                         !.at = now,
                         !.ru.gr.requested = c.requested]
    /\ UNCHANGED <<now, job, timers, nextId, RUNNING, active, ended>>

\* --------------------------------------------------------------- onGameStart
onGameStart ==
    /\ phase = "bound"
    /\ nextId <= MaxJobs
    /\ timers' = after(timers, nextId, WarmupMs, now)
    /\ job' = nextId
    /\ nextId' = nextId + 1
    /\ ended' = FALSE
    /\ last' = [NoRunYet EXCEPT !.op = "onGameStart", !.afterEnd = ended,
                                !.pending = timers, !.at = now,
                                !.running = RUNNING, !.active = active]
    /\ UNCHANGED <<now, phase, latest_summary, persisted, RUNNING, active>>

\* ------------------------------------------- the scheduled check (a cycle)
\* The host runs a callback whose deadline has passed; the callback is
\* report_update().
Cycle(t, cfg, host, resp) ==
    /\ phase = "bound"
    /\ t \in timers
    /\ t.due <= now * 1000
    /\ Reschedules(RUNNING, active) => nextId <= MaxJobs
    /\ \E ru \in {report_update(FALSE, cfg, host, resp, latest_summary,
                                persisted, now, RUNNING, active)} :
           /\ latest_summary' = ru.gr.latest
           /\ persisted' = ru.gr.persisted
           /\ timers' = IF ru.schedule
                        THEN after(timers \ {t}, nextId, ru.delay, now)
                        ELSE timers \ {t}
           /\ job' = IF ru.schedule THEN nextId ELSE job
           /\ nextId' = IF ru.schedule THEN nextId + 1 ELSE nextId
           /\ last' = Run("cycle", 1, ended, cfg, host, resp, latest_summary,
                          persisted, timers, RUNNING, active, now, ru)
    /\ UNCHANGED <<now, phase, RUNNING, active, ended>>

\* ----------------------------------------------------------------- onGameEnd
\* report_update(game_end=True), then cleanup(); an exception leaving
\* report_update would skip cleanup.
onGameEnd(cfg, host, resp) ==
    /\ phase = "bound"
    /\ Reschedules(RUNNING, active) => nextId <= MaxJobs
    /\ \E ru \in {report_update(TRUE, cfg, host, resp, latest_summary,
                                persisted, now, RUNNING, active)} :
        \E armed \in {IF ru.schedule
                      THEN after(timers, nextId, ru.delay, now) ELSE timers},
           j \in {IF ru.schedule THEN nextId ELSE job} :
           /\ latest_summary' = ru.gr.latest
           /\ persisted' = ru.gr.persisted
           /\ timers' = IF ru.propagated THEN armed ELSE cleanup(armed, j)
           /\ job' = j
           /\ nextId' = IF ru.schedule THEN nextId + 1 ELSE nextId
           /\ last' = Run("onGameEnd", 1, ended, cfg, host, resp,
                          latest_summary, persisted, timers, RUNNING, active,
                          now, ru)
    /\ ended' = TRUE
    /\ UNCHANGED <<now, phase, RUNNING, active>>

\* ------------------------------------------------------------------- cleanup
\* application.after_cancel rejects an id that is not set (None).
AfterCancelRaises(id) == id = 0
\* cleanup() raises when it passes such an id on; line 105 guards against it.
CleanupRaises(j) == j # 0 /\ AfterCancelRaises(j)

\* The host calls cleanup() on its own.
Cleanup ==
    /\ phase = "bound"
    /\ timers' = cleanup(timers, job)
    /\ last' = [NoRunYet EXCEPT !.op = "cleanup", !.afterEnd = ended,
                                !.pending = timers, !.at = now,
                                !.prev = latest_summary,
                                !.prevPersisted = persisted,
                                !.running = RUNNING, !.active = active,
                                !.ru.propagated = CleanupRaises(job)]
    /\ UNCHANGED <<now, phase, latest_summary, persisted, job, nextId,
                   RUNNING, active, ended>>

\* ---------------------------------------------------------------------- host
\* Time passes until the next pending callback is due.
NextDue == CHOOSE d \in {t.due : t \in timers} : \A t \in timers : d <= t.due
Advance ==
    /\ timers # {}
    /\ NextDue > now * 1000
    /\ NextDue <= MaxTicks * TickSecs * 1000
    /\ now' = NextDue \div 1000
    /\ UNCHANGED <<phase, latest_summary, persisted, job, timers, nextId,
                   RUNNING, active, ended, last>>

\* Time passes, one step of the clock.
Tick ==
    /\ now + TickSecs <= MaxTicks * TickSecs
    /\ now' = now + TickSecs
    /\ UNCHANGED <<phase, latest_summary, persisted, job, timers, nextId,
                   RUNNING, active, ended, last>>

\* The host starts or stops running a game.
SetRunning(b) ==
    /\ RUNNING # b
    /\ RUNNING' = b
    /\ UNCHANGED <<now, phase, latest_summary, persisted, job, timers,
                   nextId, active, ended, last>>

\* The host's active session stops being the plugin's session.
ReplaceSession ==
    /\ active
    /\ active' = FALSE
    /\ UNCHANGED <<now, phase, latest_summary, persisted, job, timers,
                   nextId, RUNNING, ended, last>>

\* Inputs of the lifecycle specification: credentials set and both outputs
\* enabled, one registered service whose calls succeed, and every kind of response with three
\* summaries: an empty achievement mapping, every achievement awarded so
\* far, and no mapping for the last game.
LifeSettings ==
    {c \in Settings : /\ c.user = "alice" /\ c.api_key = "key"
                      /\ c.add_status_updates /\ c.notify}
LifeHostCalls ==
    {h \in HostCalls : h.services = 1 /\ ~h.asuRaises /\ h.notifyRaisesAt = 0}
LifeSummaries(t) ==
    {MkSummary("Playing X", TRUE, NoAch),
     MkSummary("Playing X (Level 2)", TRUE,
               [k \in {i \in Ids : DateAwarded[i] <= t} |-> DateAwarded[k]]),
     MkSummary("Playing X", FALSE, NoAch)}
LifeResponses(t) ==
    {Response(k, None) : k \in {"error", "malformed", "offline"}}
    \cup {Response("online", s) : s \in LifeSummaries(t)}

\* The specifications below that do not follow the history variables or
\* the runs in progress leave them as they are.
Untracked == UNCHANGED hist
Atomic == UNCHANGED inflight
Plain == Untracked /\ Atomic

Next ==
    \/ Plain /\ \E identified \in BOOLEAN, resp \in LifeResponses(now) :
          Construct(identified, resp)
    \/ Plain /\ onGameStart
    \/ Plain /\ \E t \in timers, cfg \in LifeSettings, host \in LifeHostCalls,
          resp \in LifeResponses(now) : Cycle(t, cfg, host, resp)
    \/ Plain /\ \E cfg \in LifeSettings, host \in LifeHostCalls,
          resp \in LifeResponses(now) : onGameEnd(cfg, host, resp)
    \/ Plain /\ Cleanup
    \/ Plain /\ Advance
    \/ Plain /\ \E b \in BOOLEAN : SetRunning(b)
    \/ Plain /\ ReplaceSession

Spec == Init /\ [][Next]_vars

\* The specification of one report: the plugin is constructed and started
\* at any time, and a single run of report_update (a scheduled check or the
\* end-of-session check) then reads any response and any settings with the
\* credentials set; add_status_update or the service's notify may raise.
ReportSettings == {c \in Settings : c.user = "alice" /\ c.api_key = "key"}
ReportHostCalls ==
    {h \in HostCalls : h.services = 1 /\ ~(h.asuRaises /\ h.notifyRaisesAt > 0)}
NoReportYet == last.op \notin {"cycle", "onGameEnd"}

NextReport ==
    \/ Plain /\ \E identified \in BOOLEAN, resp \in ResponsesAt(now) :
          Construct(identified, resp)
    \/ Plain /\ NoReportYet /\ job = 0 /\ onGameStart
    \/ Plain /\ NoReportYet /\ \E t \in timers, cfg \in ReportSettings,
          host \in ReportHostCalls, resp \in ResponsesAt(now) :
             Cycle(t, cfg, host, resp)
    \/ Plain /\ NoReportYet /\ \E cfg \in ReportSettings,
          host \in ReportHostCalls, resp \in ResponsesAt(now) :
             onGameEnd(cfg, host, resp)
    \/ Plain /\ NoReportYet /\ Tick

SpecReport == Init /\ [][NextReport]_vars

\* The lifecycle with its history followed: when the session was started,
\* whether it was ended before the warm-up had elapsed, and which ids the
\* reports emitted so far have listed.
ListedBy(run) ==
    IF run.ru.statusUpdates + run.ru.notifyCalls > 0
    THEN run.ru.gr.report.listed ELSE {}
TrackRun ==
    /\ listedBefore' = everListed
    /\ everListed' = everListed \cup ListedBy(last')
TrackStart ==
    /\ startedAt' = now
    /\ endedEarly' = FALSE
    /\ UNCHANGED <<everListed, listedBefore>>
TrackCycle == TrackRun /\ UNCHANGED <<startedAt, endedEarly>>
TrackEnd ==
    /\ TrackRun
    /\ endedEarly' = (startedAt >= 0 /\ now * 1000 < startedAt * 1000 + WarmupMs)
    /\ UNCHANGED startedAt

NextHistory ==
    \/ Plain /\ \E identified \in BOOLEAN, resp \in LifeResponses(now) :
          Construct(identified, resp)
    \/ Atomic /\ onGameStart /\ TrackStart
    \/ /\ \E t \in timers, cfg \in LifeSettings, host \in LifeHostCalls,
             resp \in LifeResponses(now) : Cycle(t, cfg, host, resp)
       /\ TrackCycle /\ Atomic
    \/ /\ \E cfg \in LifeSettings, host \in LifeHostCalls,
             resp \in LifeResponses(now) : onGameEnd(cfg, host, resp)
       /\ TrackEnd /\ Atomic
    \/ Plain /\ Advance
    \/ Plain /\ \E b \in BOOLEAN : SetRunning(b)
    \/ Plain /\ ReplaceSession

SpecHistory == Init /\ [][NextHistory]_vars

\* The specification of what one run emits: as SpecReport, but the run
\* reads any credentials and feature toggles and meets any number of
\* registered services, any of which (and add_status_update) may raise; the
\* responses are the few of the lifecycle.
EmitSettings == {c \in Settings : c.interval = 1}
EmitHostCalls == HostCalls

NextEmit ==
    \/ Plain /\ \E identified \in BOOLEAN, resp \in LifeResponses(now) :
          Construct(identified, resp)
    \/ Plain /\ NoReportYet /\ job = 0 /\ onGameStart
    \/ Plain /\ NoReportYet /\ \E t \in timers, cfg \in EmitSettings,
          host \in EmitHostCalls, resp \in LifeResponses(now) :
             Cycle(t, cfg, host, resp)
    \/ Plain /\ NoReportYet /\ \E cfg \in EmitSettings,
          host \in EmitHostCalls, resp \in LifeResponses(now) :
             onGameEnd(cfg, host, resp)
    \/ Plain /\ NoReportYet /\ \E b \in BOOLEAN : SetRunning(b)
    \/ Plain /\ NoReportYet /\ Tick

SpecEmit == Init /\ [][NextEmit]_vars

\* The lifecycle in steps: a run of report_update is entered when the host's
\* event loop calls it and is left when it returns; the fetch, the report
\* and the finally block lie in between.
\* requests.get (line 119) returns only when the response is there: while n
\* runs are in progress the loop that called them runs nothing else.
NonBlocking(n) == FALSE
Blocking(n) == n > 0
LoopFree == ~Blocking(Cardinality(inflight))

InFlight(op, id, next) == [op |-> op, id |-> id, next |-> next]

\* The loop calls the callback of a check that is due.
BeginCycle(t) ==
    /\ phase = "bound" /\ LoopFree
    /\ t \in timers
    /\ t.due <= now * 1000
    /\ Reschedules(RUNNING, active) => nextId <= MaxJobs
    /\ timers' = timers \ {t}
    /\ inflight' = inflight \cup {InFlight("cycle", t.id, nextId)}
    /\ UNCHANGED <<now, phase, latest_summary, persisted, job, nextId,
                   RUNNING, active, ended, last>>

\* The loop delivers the session-end signal: onGameEnd enters report_update.
BeginEnd ==
    /\ phase = "bound" /\ LoopFree
    /\ Reschedules(RUNNING, active) => nextId <= MaxJobs
    /\ \A r \in inflight : r.op # "onGameEnd"
    /\ inflight' = inflight \cup {InFlight("onGameEnd", 0, nextId)}
    /\ UNCHANGED <<now, phase, latest_summary, persisted, job, timers, nextId,
                   RUNNING, active, ended, last>>

\* The run of a scheduled check returns: lines 171-187.
FinishCycle(r, cfg, host, resp) ==
    /\ r \in inflight /\ r.op = "cycle"
    /\ Reschedules(RUNNING, active) => nextId <= MaxJobs
    /\ \E ru \in {report_update(FALSE, cfg, host, resp, latest_summary,
                                persisted, now, RUNNING, active)} :
           /\ latest_summary' = ru.gr.latest
           /\ persisted' = ru.gr.persisted
           /\ timers' = IF ru.schedule
                        THEN after(timers, nextId, ru.delay, now) ELSE timers
           /\ job' = IF ru.schedule THEN nextId ELSE job
           /\ nextId' = IF ru.schedule THEN nextId + 1 ELSE nextId
           /\ last' = Run("cycle", 1, ended, cfg, host, resp, latest_summary,
                          persisted, timers, RUNNING, active, now, ru)
    /\ inflight' = inflight \ {r}
    /\ UNCHANGED <<now, phase, RUNNING, active, ended>>

\* The end-of-session run returns and onGameEnd calls cleanup().
FinishEnd(r, cfg, host, resp) ==
    /\ r \in inflight /\ r.op = "onGameEnd"
    /\ Reschedules(RUNNING, active) => nextId <= MaxJobs
    /\ \E ru \in {report_update(TRUE, cfg, host, resp, latest_summary,
                                persisted, now, RUNNING, active)} :
        \E armed \in {IF ru.schedule
                      THEN after(timers, nextId, ru.delay, now) ELSE timers},
           j \in {IF ru.schedule THEN nextId ELSE job} :
           /\ latest_summary' = ru.gr.latest
           /\ persisted' = ru.gr.persisted
           /\ timers' = IF ru.propagated THEN armed ELSE cleanup(armed, j)
           /\ job' = j
           /\ nextId' = IF ru.schedule THEN nextId + 1 ELSE nextId
           /\ last' = Run("onGameEnd", 1, ended, cfg, host, resp,
                          latest_summary, persisted, timers, RUNNING, active,
                          now, ru)
    /\ ended' = TRUE
    /\ inflight' = inflight \ {r}
    /\ UNCHANGED <<now, phase, RUNNING, active>>

NextSteps ==
    \/ Plain /\ LoopFree /\ \E identified \in BOOLEAN,
          resp \in LifeResponses(now) : Construct(identified, resp)
    \/ Plain /\ LoopFree /\ onGameStart
    \/ Untracked /\ \E t \in timers : BeginCycle(t)
    \/ Untracked /\ BeginEnd
    \/ Untracked /\ \E r \in inflight, cfg \in LifeSettings,
          host \in LifeHostCalls, resp \in LifeResponses(now) :
             FinishCycle(r, cfg, host, resp)
    \/ Untracked /\ \E r \in inflight, cfg \in LifeSettings,
          host \in LifeHostCalls, resp \in LifeResponses(now) :
             FinishEnd(r, cfg, host, resp)
    \/ Plain /\ Advance
    \/ Plain /\ LoopFree /\ \E b \in BOOLEAN : SetRunning(b)
    \/ Plain /\ LoopFree /\ ReplaceSession

SpecSteps == Init /\ [][NextSteps]_vars

\* ==================================================================== claims
Ran == last.op \in {"cycle", "onGameEnd"}
Fetched == Ran /\ last.ru.gr.requested /\ last.resp.kind = "online"
Emitted == last.ru.statusUpdates + last.ru.notifyCalls
PendingIds == {t.id : t \in timers}

\* C1 (as claimed): whenever onGameEnd has run, it made exactly one report
\* attempt with end-of-session framing and no delayed check of this reporter
\* is pending afterwards, the one pending before the handler included.
C1_EndLeavesNothingPending ==
    last.op = "onGameEnd" =>
        /\ last.attempts = 1
        /\ last.ru.framing = "played"
        /\ timers = {}

\* C2 (as claimed): the host scheduler never holds more than one pending
\* delayed check of the reporter.
C2_AtMostOnePending == Cardinality(timers) <= 1

\* C3 (as claimed): every run of report_update schedules the next check
\* exactly when the owning session is still the host's active session.
C3_ScheduleIffActive == Ran => (last.ru.schedule <=> last.active)

\* C3 (amended): every run of report_update, whether it reported, had
\* nothing to report or failed, schedules the next check after the
\* configured interval exactly when application.RUNNING is set and the
\* owning session is still the host's active session; a scheduled check that
\* schedules nothing leaves only the callbacks that were pending besides it.
C3_ScheduleIffRunningAndActive ==
    /\ Ran => (last.ru.schedule <=> (last.running /\ last.active))
    /\ last.op = "cycle" =>
          IF last.running /\ last.active
          THEN /\ job \notin {t.id : t \in last.pending}
               /\ Timer(job, last.at * 1000 + last.cfg.interval * 60000)
                     \in timers
               /\ Cardinality(timers) = Cardinality(last.pending)
          ELSE /\ timers \subseteq last.pending
               /\ Cardinality(timers) = Cardinality(last.pending) - 1

\* C3 witness: a scheduled check failed while building its report and the
\* next check is pending.
C3_Witness ==
    /\ last.op = "cycle"
    /\ last.ru.logged
    /\ last.running /\ last.active
    /\ job \in PendingIds

\* C4 (as claimed): once onGameEnd has run, no scheduled check of the
\* reporter runs any more.
C4_NoCycleAfterEnd == ~(last.op = "cycle" /\ last.afterEnd)

\* C5: when the fetched summary equals the stored one, get_report returns
\* no report, nothing is emitted and the stored summary is still that one.
C5_NoChangeNoReport ==
    (Fetched /\ last.resp.summary = last.prev) =>
        /\ last.ru.gr.report.none
        /\ ~last.ru.gr.raised
        /\ Emitted = 0
        /\ latest_summary = last.prev

\* C5 witness: an unchanged summary with a presence text was fetched while
\* both outputs were enabled.
C5_Witness ==
    /\ Fetched
    /\ last.resp.summary = last.prev
    /\ last.prev.presence # ""
    /\ last.cfg.add_status_updates /\ last.cfg.notify

\* The fetched mapping is the stored mapping plus the one record k.
OneMore(k) ==
    /\ Fetched
    /\ ~last.prev.none /\ last.prev.hasAch /\ last.resp.summary.hasAch
    /\ k \notin DOMAIN last.prev.ach
    /\ DOMAIN last.resp.summary.ach = DOMAIN last.prev.ach \cup {k}
    /\ \A j \in DOMAIN last.prev.ach :
          last.resp.summary.ach[j] = last.prev.ach[j]

\* C6: when the fetched achievements are the stored ones plus one record
\* awarded D seconds before now, the record is listed iff
\* D < 2 * interval * 60; an id of the stored summary is never listed.
C6_RecencyWindow ==
    /\ \A k \in Ids :
          OneMore(k) =>
             (k \in last.ru.gr.report.listed
                <=> last.at - last.resp.summary.ach[k]
                       < 120 * last.cfg.interval)
    /\ (Fetched /\ ~last.prev.none /\ last.prev.hasAch) =>
          last.ru.gr.report.listed \cap DOMAIN last.prev.ach = {}

\* C6 witness: a new record awarded exactly 2 * interval minutes ago was
\* left out, next to a stored record.
C6_Witness ==
    \E k \in Ids :
       /\ OneMore(k)
       /\ DOMAIN last.prev.ach # {}
       /\ last.at - last.resp.summary.ach[k] = 120 * last.cfg.interval
       /\ k \notin last.ru.gr.report.listed

\* C7 (as claimed): with no stored summary, a fetched summary yields a
\* report that is its presence text with no achievement listed, and becomes
\* the stored summary.
C7_BaselineReportsPresence ==
    (Fetched /\ last.prev.none) =>
        /\ ~last.ru.gr.raised
        /\ ~last.ru.gr.report.none
        /\ last.ru.gr.report.presence = last.resp.summary.presence
        /\ last.ru.gr.report.listed = {}
        /\ latest_summary = last.resp.summary

\* C8 (as claimed): after a run whose fetch returned a summary, the stored
\* summary is that summary.
C8_StoredIsFetched == Fetched => latest_summary = last.resp.summary

\* C9: when the remote reports the user offline or the request fails,
\* get_summary returns None without raising, nothing is emitted and the
\* stored and the persisted summary are unchanged.
C9_NoDataCycle ==
    (Ran /\ last.ru.gr.requested /\ last.resp.kind \in {"offline", "error"}) =>
        /\ ~last.ru.gr.raised
        /\ ~last.ru.logged
        /\ last.ru.gr.summary.none
        /\ last.ru.gr.report.none
        /\ Emitted = 0
        /\ latest_summary = last.prev
        /\ persisted = last.prevPersisted

\* C9 witness: the request failed while a summary was stored.
C9_Witness ==
    /\ Ran /\ last.ru.gr.requested
    /\ last.resp.kind = "error"
    /\ ~last.prev.none
    /\ latest_summary = last.prev

\* C10: no failure of the fetch, the diff, add_status_update or notify
\* leaves report_update; it is logged and the handler returns.
C10_FailuresSwallowed ==
    Ran =>
        /\ ~last.ru.propagated
        /\ (\/ last.ru.gr.raised
            \/ (last.ru.statusUpdates = 1 /\ last.host.asuRaises)
            \/ (last.ru.notifyCalls > 0 /\ last.host.notifyRaisesAt > 0))
              => last.ru.logged

\* C10 witness: the end-of-session check's notify raised and was logged.
C10_Witness ==
    /\ last.op = "onGameEnd"
    /\ last.ru.notifyCalls > 0
    /\ last.host.notifyRaisesAt > 0
    /\ last.ru.logged

\* C11: cleanup() on a reporter whose handle names no pending callback (it
\* was never set, or the check it names has fired or was cancelled) changes
\* nothing: it raises no error, every pending callback stays pending,
\* nothing is scheduled, and the stored and persisted snapshots are as they
\* were.
C11_CleanupWithoutPendingIsNoOp ==
    (last.op = "cleanup" /\ job \notin {t.id : t \in last.pending}) =>
        /\ ~last.ru.propagated
        /\ timers = last.pending
        /\ latest_summary = last.prev
        /\ persisted = last.prevPersisted
\* cleanup() ran with a handle of a check that is gone while another check
\* was pending.
C11_Witness ==
    /\ last.op = "cleanup"
    /\ job # 0
    /\ job \notin {t.id : t \in last.pending}
    /\ last.pending # {}

\* C12: constructing the reporter for a session whose application was not
\* identified by RetroarchIdentifierPlugin fails, and then no handler is
\* bound, no summary was fetched, no check is scheduled and the persisted
\* snapshot is as it was.
C12_UnsupportedAppLeavesNothing ==
    last.op = "init_failed" =>
        /\ phase = "failed"
        /\ ~last.ru.gr.requested
        /\ timers = {} /\ job = 0
        /\ persisted = last.prevPersisted
        /\ latest_summary = None
\* The construction failed although nothing was persisted and the site
\* would have answered with a summary.
C12_Witness ==
    /\ last.op = "init_failed"
    /\ last.prevPersisted = NoEntry
    /\ last.resp.kind = "online"


\* C13 as claimed: in a run that produces a report body, add_status_update
\* is called once if add_status_updates is enabled and not at all
\* otherwise, and every registered service receives one notify call if
\* notify is enabled and none otherwise; a run without a report body makes
\* neither call.
C13_EveryServiceNotified ==
    Ran =>
        IF Emits(last.ru.gr)
        THEN /\ last.ru.statusUpdates =
                    (IF last.cfg.add_status_updates THEN 1 ELSE 0)
             /\ last.ru.notifyCalls =
                    (IF last.cfg.notify THEN last.host.services ELSE 0)
        ELSE last.ru.statusUpdates = 0 /\ last.ru.notifyCalls = 0
\* C13 amended: add_status_update is called once if enabled; the services
\* are notified in order, one call each, up to and including the first
\* whose notify raises, and not at all when notify is disabled or
\* add_status_update raised; with no failure every service gets one call.
C13_NotifiedUntilFailure ==
    Ran =>
        IF Emits(last.ru.gr)
        THEN /\ last.ru.statusUpdates =
                    (IF last.cfg.add_status_updates THEN 1 ELSE 0)
             /\ last.ru.notifyCalls =
                    (IF ~last.cfg.notify THEN 0
                     ELSE IF last.cfg.add_status_updates /\ last.host.asuRaises
                          THEN 0
                     ELSE IF last.host.notifyRaisesAt > 0
                          THEN last.host.notifyRaisesAt
                     ELSE last.host.services)
        ELSE last.ru.statusUpdates = 0 /\ last.ru.notifyCalls = 0
\* A report body was produced, both toggles are on, two services are
\* registered and the first one's notify raised.
C13_Witness ==
    /\ Ran
    /\ Emits(last.ru.gr)
    /\ last.cfg.add_status_updates /\ last.cfg.notify
    /\ last.host.services = 2 /\ last.host.notifyRaisesAt = 1
    /\ last.ru.statusUpdates = 1 /\ last.ru.notifyCalls = 1

\* C19: a run with an empty user name or an empty API key issues no
\* request, makes no status update and no notify call, leaves the stored
\* and the persisted snapshot as they were, and still schedules the next
\* check, after the configured interval, exactly when the host is running
\* and the session is the active one.
C19_NoCredentialsNoFetch ==
    (Ran /\ (last.cfg.user = "" \/ last.cfg.api_key = "")) =>
        /\ ~last.ru.gr.requested
        /\ last.ru.statusUpdates = 0 /\ last.ru.notifyCalls = 0
        /\ ~last.ru.logged /\ ~last.ru.propagated
        /\ latest_summary = last.prev
        /\ persisted = last.prevPersisted
        /\ last.ru.schedule <=> (last.running /\ last.active)
        /\ (last.op = "cycle" /\ last.ru.schedule) =>
              Timer(job, last.at * 1000 + last.cfg.interval * MsPerMinute)
                  \in timers
\* A scheduled check ran with the user set and the API key empty while the
\* site would have answered with a new summary, and scheduled its successor.
C19_Witness ==
    /\ last.op = "cycle"
    /\ last.cfg.user # "" /\ last.cfg.api_key = ""
    /\ last.resp.kind = "online" /\ last.resp.summary # last.prev
    /\ last.ru.schedule


\* C14 (as claimed): onGameStart makes no request and emits nothing; it only
\* arms the first check WarmupMs after the signal, whatever the configured
\* interval; and for a session that was ended before the warm-up had
\* elapsed no scheduled check emits a report (only the end-of-session run
\* may).
C14_NoReportForShortSession ==
    /\ last.op = "onGameStart" =>
          /\ ~last.ru.gr.requested
          /\ Emitted = 0
          /\ timers = last.pending \cup {Timer(job, last.at * 1000 + WarmupMs)}
    /\ (last.op = "cycle" /\ endedEarly) => Emitted = 0

\* The fetched record k is new against the stored summary and the recency
\* test left it out of the report.
ExcludedAsStale(k) ==
    /\ Fetched /\ ~last.ru.gr.raised
    /\ ~last.prev.none /\ last.prev.hasAch /\ last.resp.summary.hasAch
    /\ k \in DOMAIN last.resp.summary.ach
    /\ k \notin DOMAIN last.prev.ach
    /\ k \notin last.ru.gr.report.listed

\* C16 (as claimed): whenever the recency test leaves out an achievement
\* that is new against the stored summary, a report emitted by an earlier
\* run has listed that achievement.
C16_ExcludedWasListedBefore ==
    \A k \in Ids : ExcludedAsStale(k) => k \in listedBefore

\* C18 (as claimed): an achievement that an emitted report listed as new is
\* not listed as new by any later report.
C18_ListedOnce ==
    Ran => ListedBy(last) \cap listedBefore = {}


\* C15: after every fetch that returned a summary (in a run or in the
\* constructor) the configuration entry reads back as the fetched summary;
\* a reporter constructed over an existing entry starts with the summary
\* the entry reads back as, writes nothing and makes no request; and the
\* constructor makes a request only when there is no entry.
C15_PersistReloadRoundTrip ==
    /\ (/\ last.op \in {"init", "cycle", "onGameEnd"}
        /\ last.ru.gr.requested /\ last.resp.kind = "online") =>
          /\ persisted # NoEntry
          /\ loads(persisted) = last.resp.summary
    /\ (last.op = "init" /\ last.prevPersisted # NoEntry) =>
          /\ ~last.ru.gr.requested
          /\ persisted = last.prevPersisted
          /\ latest_summary = loads(last.prevPersisted)
          /\ dumps(latest_summary) = last.prevPersisted
    /\ (last.op = "init" /\ last.ru.gr.requested) =>
          last.prevPersisted = NoEntry
\* A run fetched a summary with two achievement records over an older
\* entry, and the entry now reads back as that summary.
C15_Witness ==
    /\ Fetched
    /\ last.prevPersisted # NoEntry
    /\ Cardinality(DOMAIN last.resp.summary.ach) = 2
    /\ loads(persisted) = last.resp.summary


\* C17: at most one run of report_update, and so at most one fetch, is in
\* progress at any time; while a run is in progress nothing it or anyone
\* else has armed since it began is pending (the successor is armed only in
\* the finally block, when the fetch and the report are done); and the
\* end-of-session run is never in progress next to a scheduled check.
C17_OneFetchAtATime ==
    /\ Cardinality(inflight) <= 1
    /\ \A r \in inflight : \A t \in timers : t.id < r.next
    /\ ~\E r, q \in inflight : r.op = "cycle" /\ q.op = "onGameEnd"
\* A scheduled check is in progress while a second check is due and the
\* clock has passed its deadline.
C17_Witness ==
    /\ \E r \in inflight : r.op = "cycle"
    /\ \E t \in timers : t.due <= now * 1000

====
